---- MODULE Spec2Model ----
(***************************************************************************)
(* A state-machine model of the HCI layer of system/gd/hci/hci_layer.cc:   *)
(* the command engine (command_queue_, command_credits_, waiting_command_, *)
(* hci_timeout_alarm_), the event router (event_handlers_,                 *)
(* subevent_handlers_) and the handler on which every task of the layer    *)
(* runs to completion.                                                     *)
(*                                                                         *)
(* `tasks` is the layer's handler queue.  Every public call of HciLayer    *)
(* and every HAL callback posts one task (CallOn); the callbacks that      *)
(* Start binds with handler->BindOn / handler->BindOnce run on that same   *)
(* handler, so invoking them posts one more task.  One handler task is one *)
(* atomic action of the model.                                             *)
(*                                                                         *)
(* The tasks Start posts carry the arguments Start bound.  The arguments   *)
(* of a client's call and the bytes of an event packet do not depend on    *)
(* the layer's state and the layer reads them only in the handler that     *)
(* runs the task, so the model draws them there: the same handler turns in *)
(* the same order, without a copy of every argument in the queue.          *)
(*                                                                         *)
(* `trace` is a history variable: the enqueues the handler has processed,  *)
(* the HAL sendHciCommand calls and the sink invocations, in order.        *)
(* `lookup` and `view` are what the last handler turn looked up in a table *)
(* and read of its packet, and `shadow` is the tables that the register /  *)
(* unregister calls which returned should have produced: history           *)
(* variables too.                                                          *)
(***************************************************************************)
EXTENDS Integers, Sequences, FiniteSets, TLC

VARIABLES
  phase,              \* "constructed" | "started" | "stopped"
  fatal,              \* [why, op]: the failed ASSERT that aborted the process
  tasks,              \* the handler's queue of posted tasks
  command_queue_,     \* std::list<CommandQueueEntry>
  command_credits_,   \* uint8_t
  waiting_command_,   \* OpCode
  hci_timeout_alarm_, \* <<>> when not scheduled, <<op_code>> when scheduled
  event_handlers_,    \* EventCode -> handler, NoHandler when absent
  subevent_handlers_, \* SubeventCode -> handler, NoHandler when absent
  next_id,            \* identity of the next command of a client
  calls,              \* calls clients have made of the public interface
  trace,              \* history: enq / send / sink records
  lookup,             \* history: the handler the last handler turn ran,
                      \* the key it looked up in a table and what it found
                      \* there (NoLookup when the turn looked nothing up)
  view,               \* history: the command complete / command status view
                      \* the last handler turn read (NoView when it read none)
  shadow              \* history: per table, the handler of the most recent
                      \* register of a key not followed by an unregister

vars == <<phase, fatal, tasks, command_queue_, command_credits_,
          waiting_command_, hci_timeout_alarm_, event_handlers_,
          subevent_handlers_, next_id, calls, trace, lookup, view,
          shadow>>

engine_vars == <<command_queue_, command_credits_, waiting_command_,
                 hci_timeout_alarm_>>

table_vars == <<event_handlers_, subevent_handlers_>>

---------------------------------------------------------------------------
(* Bounds of the model.                                                    *)

MaxCalls == 1     \* calls clients make of the public interface

MaxTasks == 1     \* tasks clients and the HAL may have pending on the handler

MaxCredits == 1   \* largest Num_HCI_Command_Packets the controller reports

MaxFacades == 1   \* kinds of facade the clients ask for in one run

---------------------------------------------------------------------------
(* Opcodes, event codes, handlers.                                         *)

\* The 16-bit opcodes the model uses (values of the Bluetooth HCI).
OpCode == [NONE |-> 0, RESET |-> 3075, CREATE_CONNECTION |-> 1029,
           READ_BD_ADDR |-> 4105]

NONE == OpCode.NONE

RESET == OpCode.RESET

\* Opcodes of the commands clients enqueue: a command the controller
\* answers with a command complete is enqueued with a complete sink, one it
\* answers with a command status with a status sink.  NONE is the "no
\* command" sentinel and no command builder carries it.
CompleteOpCodes == {OpCode.READ_BD_ADDR}

StatusOpCodes == {OpCode.CREATE_CONNECTION}

\* Opcodes a command-complete / command-status event may carry.
ResponseOpCodes == {NONE, RESET} \cup CompleteOpCodes \cup StatusOpCodes

EventCodes == {"COMMAND_COMPLETE", "COMMAND_STATUS", "LE_META_EVENT",
               "PAGE_SCAN_REPETITION_MODE_CHANGE", "MAX_SLOTS_CHANGE",
               "VENDOR_SPECIFIC", "CONNECTION_COMPLETE",
               "CONNECTION_REQUEST", "ENCRYPTION_CHANGE"}

\* Event codes of the packets the HAL delivers.
HalEventCodes == {"COMMAND_COMPLETE", "COMMAND_STATUS", "LE_META_EVENT",
                  "VENDOR_SPECIFIC", "CONNECTION_COMPLETE"}

SubeventCodes == {"CONNECTION_COMPLETE_LE", "ADVERTISING_REPORT",
                  "LONG_TERM_KEY_REQUEST", "SCAN_REQUEST_RECEIVED"}

\* Event codes clients register and unregister through the public interface.
ClientEventCodes ==
  {"COMMAND_COMPLETE", "COMMAND_STATUS", "CONNECTION_COMPLETE"}

ClientSubeventCodes == {"CONNECTION_COMPLETE_LE"}

NoHandler == "absent"

\* The callbacks Start binds on the layer's own handler.
EngineHandlers == {"on_command_complete", "on_command_status",
                   "on_le_meta_event", "drop"}

ClientHandlers == {"client"}

NoFatal == [why |-> "none", op |-> NONE]

Fatal(why) == [why |-> why, op |-> NONE]

---------------------------------------------------------------------------
(* The packet codec, as far as the layer reads packets.                    *)

\* CommandPacketBuilder::Serialize: the opcode, little endian, then the
\* parameter length.
Serialize(command) == <<command.op % 256, command.op \div 256, 0>>

\* CommandPacketView::GetOpCode of the serialized bytes.
GetOpCode(bytes) == bytes[1] + 256 * bytes[2]

\* What CommandCompleteView / CommandStatusView read of an event: the
\* validity of the view, Num_HCI_Command_Packets, the command opcode.
ResponseView(valid, ncp, op) == [valid |-> valid, ncp |-> ncp, op |-> op]

ResponseViews ==
  {ResponseView(TRUE, ncp, op) : ncp \in 0..MaxCredits, op \in ResponseOpCodes}
  \cup {ResponseView(FALSE, 0, NONE)}   \* a view that is not valid

\* What ResetCompleteView reads of the event handed to the Reset sink: the
\* validity of the view, and whether the status is SUCCESS.
ResetCompleteViews == [valid : BOOLEAN, success : BOOLEAN]

\* What LeMetaEventView reads: the validity of the view, the subevent code.
LeMetaEventViews ==
  {[valid |-> TRUE, sub |-> sub] : sub \in SubeventCodes}
  \cup {[valid |-> FALSE, sub |-> "CONNECTION_COMPLETE_LE"]}

NoLookup == [by |-> "-", code |-> "-", found |-> "-"]

\* The lookup of the task the handler is running.
Lookup(code, found) ==
  [by |-> Head(tasks).t, code |-> code, found |-> found]

NoView == [valid |-> FALSE, ncp |-> 0, op |-> NONE, unread |-> TRUE]

---------------------------------------------------------------------------
(* The initial state: HciLayer::HciLayer(), and the members of impl as     *)
(* their initializers leave them.                                          *)

Init ==
  /\ phase = "constructed"
  /\ fatal = NoFatal
  /\ tasks = <<>>
  /\ command_queue_ = <<>>
  /\ command_credits_ = 1
  /\ waiting_command_ = NONE
  /\ hci_timeout_alarm_ = <<>>
  /\ event_handlers_ = [c \in EventCodes |-> NoHandler]
  /\ subevent_handlers_ = [s \in SubeventCodes |-> NoHandler]
  /\ next_id = 1
  /\ calls = 0
  /\ trace = <<>>
  /\ lookup = NoLookup
  /\ view = NoView
  /\ shadow = [event |-> [c \in EventCodes |-> NoHandler],
               subevent |-> [s \in SubeventCodes |-> NoHandler]]

Running == phase = "started" /\ fatal = NoFatal

---------------------------------------------------------------------------
(* The command engine.  The handlers of a response end in                  *)
(* send_next_command, so the engine's code is written as operators on the  *)
(* record e of the engine's fields, and an action applies one of them.     *)

Engine == [q |-> command_queue_, credits |-> command_credits_,
           waiting |-> waiting_command_, alarm |-> hci_timeout_alarm_,
           trace |-> trace]

SetEngine(e) ==
  /\ command_queue_' = e.q
  /\ command_credits_' = e.credits
  /\ waiting_command_' = e.waiting
  /\ hci_timeout_alarm_' = e.alarm
  /\ trace' = e.trace

\* CommandQueueEntry: the command, the flag and the one sink it holds.
CommandQueueEntry(command, waiting_for_status, sink) ==
  [command |-> command, waiting_for_status_ |-> waiting_for_status,
   sink |-> sink]

SendRecord(entry, op_code) ==
  [e |-> "send", id |-> entry.command.id, op |-> op_code]

SinkRecord(entry) ==
  [e |-> "sink", id |-> entry.command.id, op |-> entry.command.op]

EnqRecord(entry) ==
  [e |-> "enq", id |-> entry.command.id, op |-> entry.command.op]

\* send_next_command without its check of waiting_command_.
send_next_command_ignoring_waiting(e) ==
  IF e.credits = 0 THEN e
  ELSE IF Len(e.q) = 0 THEN e
  ELSE LET bytes == Serialize(Head(e.q).command)
           op_code == GetOpCode(bytes)
       IN [e EXCEPT !.trace = Append(@, SendRecord(Head(e.q), op_code)),
                    !.waiting = op_code,
                    !.credits = 0,
                    !.alarm = <<op_code>>]

\* send_next_command without the Schedule of hci_timeout_alarm_.
send_next_command_without_alarm(e) ==
  IF e.credits = 0 THEN e
  ELSE IF e.waiting # NONE THEN e
  ELSE IF Len(e.q) = 0 THEN e
  ELSE LET bytes == Serialize(Head(e.q).command)
           op_code == GetOpCode(bytes)
       IN [e EXCEPT !.trace = Append(@, SendRecord(Head(e.q), op_code)),
                    !.waiting = op_code,
                    !.credits = 0]

\* send_next_command without the clamp of command_credits_.
send_next_command_keeping_credits(e) ==
  IF e.credits = 0 THEN e
  ELSE IF e.waiting # NONE THEN e
  ELSE IF Len(e.q) = 0 THEN e
  ELSE LET bytes == Serialize(Head(e.q).command)
           op_code == GetOpCode(bytes)
       IN [e EXCEPT !.trace = Append(@, SendRecord(Head(e.q), op_code)),
                    !.waiting = op_code,
                    !.alarm = <<op_code>>]

\* send_next_command clamping command_credits_ before it looks at the
\* queue.
send_next_command_clamping_early(e) ==
  IF e.credits = 0 THEN e
  ELSE IF e.waiting # NONE THEN e
  ELSE IF Len(e.q) = 0 THEN [e EXCEPT !.credits = 0]
  ELSE LET bytes == Serialize(Head(e.q).command)
           op_code == GetOpCode(bytes)
       IN [e EXCEPT !.trace = Append(@, SendRecord(Head(e.q), op_code)),
                    !.waiting = op_code,
                    !.credits = 0,
                    !.alarm = <<op_code>>]

\* send_next_command without its check of command_credits_.
send_next_command_ignoring_credits(e) ==
  IF e.waiting # NONE THEN e
  ELSE IF Len(e.q) = 0 THEN e
  ELSE LET bytes == Serialize(Head(e.q).command)
           op_code == GetOpCode(bytes)
       IN [e EXCEPT !.trace = Append(@, SendRecord(Head(e.q), op_code)),
                    !.waiting = op_code,
                    !.credits = 0,
                    !.alarm = <<op_code>>]

send_next_command(e) ==
  IF e.credits = 0 THEN e
  ELSE IF e.waiting # NONE THEN e
  ELSE IF Len(e.q) = 0 THEN e
  ELSE LET bytes == Serialize(Head(e.q).command)
           op_code == GetOpCode(bytes)
       IN [e EXCEPT !.trace = Append(@, SendRecord(Head(e.q), op_code)),
                    !.waiting = op_code,
                    !.credits = 0,
                    !.alarm = <<op_code>>]

\* What a handler turn of the engine produces: the engine's fields, the
\* fatal it ended in (NoFatal when it returned), the tasks it posted.
Out(e, f, post) == [engine |-> e, fatal |-> f, post |-> post]

\* on_complete / on_status .Invoke: the Reset sink of Start is bound on the
\* layer's handler (a task there); a client's sink runs on the client's.
InvokeSink(entry, event) ==
  IF entry.sink = "fail_if_reset_complete_not_success"
  THEN <<[t |-> entry.sink]>>
  ELSE <<>>

\* The end of a response handler without its pop_front.
CompletedWithoutPop(e) ==
  [e EXCEPT !.trace = Append(@, SinkRecord(Head(e.q))),
            !.waiting = NONE,
            !.alarm = <<>>]

\* The end of a response handler without the Cancel of hci_timeout_alarm_.
CompletedWithoutCancel(e) ==
  [e EXCEPT !.trace = Append(@, SinkRecord(Head(e.q))),
            !.q = Tail(@),
            !.waiting = NONE]

\* The end of a response handler popping the back of the queue instead of
\* its front.
CompletedPoppingBack(e) ==
  [e EXCEPT !.trace = Append(@, SinkRecord(Head(e.q))),
            !.q = SubSeq(@, 1, Len(@) - 1),
            !.waiting = NONE,
            !.alarm = <<>>]

\* The end of a response handler that drops the head of the queue without
\* invoking its sink.
CompletedWithoutInvoke(e) ==
  [e EXCEPT !.q = Tail(@),
            !.waiting = NONE,
            !.alarm = <<>>]

Completed(e) ==
  [e EXCEPT !.trace = Append(@, SinkRecord(Head(e.q))),
            !.q = Tail(@),
            !.waiting = NONE,
            !.alarm = <<>>]

\* on_command_status without its check of waiting_for_status_.
OnCommandStatusAnyKind(e, event) ==
  IF ~event.valid THEN Out(e, Fatal("invalid_view"), <<>>)
  ELSE
  LET e1 == [e EXCEPT !.credits = event.ncp]
      op_code == event.op
  IN IF op_code = NONE THEN Out(send_next_command(e1), NoFatal, <<>>)
     ELSE IF Len(e1.q) = 0 THEN Out(e1, Fatal("unexpected_status"), <<>>)
     ELSE IF e1.waiting # op_code THEN Out(e1, Fatal("wrong_opcode"), <<>>)
     ELSE Out(send_next_command(Completed(e1)), NoFatal,
              InvokeSink(Head(e1.q), event))

\* on_command_status whose credit-only branch returns without
\* send_next_command.
OnCommandStatusCreditOnlyWithoutSend(e, event) ==
  IF ~event.valid THEN Out(e, Fatal("invalid_view"), <<>>)
  ELSE
  LET e1 == [e EXCEPT !.credits = event.ncp]
      op_code == event.op
  IN IF op_code = NONE THEN Out(e1, NoFatal, <<>>)
     ELSE IF Len(e1.q) = 0 THEN Out(e1, Fatal("unexpected_status"), <<>>)
     ELSE IF e1.waiting # op_code THEN Out(e1, Fatal("wrong_opcode"), <<>>)
     ELSE IF ~Head(e1.q).waiting_for_status_
       THEN Out(e1, Fatal("status_for_complete"), <<>>)
     ELSE Out(send_next_command(Completed(e1)), NoFatal,
              InvokeSink(Head(e1.q), event))

OnCommandStatus(e, event) ==
  IF ~event.valid THEN Out(e, Fatal("invalid_view"), <<>>)
  ELSE
  LET e1 == [e EXCEPT !.credits = event.ncp]
      op_code == event.op
  IN IF op_code = NONE THEN Out(send_next_command(e1), NoFatal, <<>>)
     ELSE IF Len(e1.q) = 0 THEN Out(e1, Fatal("unexpected_status"), <<>>)
     ELSE IF e1.waiting # op_code THEN Out(e1, Fatal("wrong_opcode"), <<>>)
     ELSE IF ~Head(e1.q).waiting_for_status_
       THEN Out(e1, Fatal("status_for_complete"), <<>>)
     ELSE Out(send_next_command(Completed(e1)), NoFatal,
              InvokeSink(Head(e1.q), event))

\* on_command_complete sending the next command before it invokes the sink.
OnCommandCompleteSendFirst(e, event) ==
  IF ~event.valid THEN Out(e, Fatal("invalid_view"), <<>>)
  ELSE
  LET e1 == [e EXCEPT !.credits = event.ncp]
      op_code == event.op
      e2 == send_next_command([e1 EXCEPT !.q = Tail(@),
                                         !.waiting = NONE,
                                         !.alarm = <<>>])
  IN IF op_code = NONE THEN Out(send_next_command(e1), NoFatal, <<>>)
     ELSE IF Len(e1.q) = 0 THEN Out(e1, Fatal("unexpected_complete"), <<>>)
     ELSE IF e1.waiting # op_code THEN Out(e1, Fatal("wrong_opcode"), <<>>)
     ELSE IF Head(e1.q).waiting_for_status_
       THEN Out(e1, Fatal("complete_for_status"), <<>>)
     ELSE Out([e2 EXCEPT !.trace = Append(@, SinkRecord(Head(e1.q)))],
              NoFatal, InvokeSink(Head(e1.q), event))

\* on_command_complete whose credit-only branch does not take the reported
\* count.
OnCommandCompleteDroppingCredits(e, event) ==
  IF ~event.valid THEN Out(e, Fatal("invalid_view"), <<>>)
  ELSE
  LET e1 == [e EXCEPT !.credits = event.ncp]
      op_code == event.op
  IN IF op_code = NONE THEN Out(send_next_command(e), NoFatal, <<>>)
     ELSE IF Len(e1.q) = 0 THEN Out(e1, Fatal("unexpected_complete"), <<>>)
     ELSE IF e1.waiting # op_code THEN Out(e1, Fatal("wrong_opcode"), <<>>)
     ELSE IF Head(e1.q).waiting_for_status_
       THEN Out(e1, Fatal("complete_for_status"), <<>>)
     ELSE Out(send_next_command(Completed(e1)), NoFatal,
              InvokeSink(Head(e1.q), event))

OnCommandComplete(e, event) ==
  IF ~event.valid THEN Out(e, Fatal("invalid_view"), <<>>)
  ELSE
  LET e1 == [e EXCEPT !.credits = event.ncp]
      op_code == event.op
  IN IF op_code = NONE THEN Out(send_next_command(e1), NoFatal, <<>>)
     ELSE IF Len(e1.q) = 0 THEN Out(e1, Fatal("unexpected_complete"), <<>>)
     ELSE IF e1.waiting # op_code THEN Out(e1, Fatal("wrong_opcode"), <<>>)
     ELSE IF Head(e1.q).waiting_for_status_
       THEN Out(e1, Fatal("complete_for_status"), <<>>)
     ELSE Out(send_next_command(Completed(e1)), NoFatal,
              InvokeSink(Head(e1.q), event))

\* An enqueue that puts the entry at the front of command_queue_.
HandleEnqueueAtFront(e, entry) ==
  send_next_command([e EXCEPT !.q = <<entry>> \o @,
                              !.trace = Append(@, EnqRecord(entry))])

\* An enqueue that returns after emplace_back, without send_next_command.
HandleEnqueueWithoutSend(e, entry) ==
  [e EXCEPT !.q = Append(@, entry),
            !.trace = Append(@, EnqRecord(entry))]

HandleEnqueue(e, entry) ==
  send_next_command([e EXCEPT !.q = Append(@, entry),
                              !.trace = Append(@, EnqRecord(entry))])

\* The handler takes the task at the head of its queue.
Turn(t) == Running /\ tasks # <<>> /\ Head(tasks).t = t

on_command_status ==
  /\ Turn("on_command_status")
  /\ \E event \in ResponseViews :
       LET r == OnCommandStatus(Engine, event)
       IN /\ SetEngine(r.engine)
          /\ fatal' = r.fatal
          /\ tasks' = Tail(tasks) \o r.post
          /\ view' = event
  /\ lookup' = NoLookup
  /\ UNCHANGED <<phase, table_vars, next_id, calls, shadow>>

on_command_complete ==
  /\ Turn("on_command_complete")
  /\ \E event \in ResponseViews :
       LET r == OnCommandComplete(Engine, event)
       IN /\ SetEngine(r.engine)
          /\ fatal' = r.fatal
          /\ tasks' = Tail(tasks) \o r.post
          /\ view' = event
  /\ lookup' = NoLookup
  /\ UNCHANGED <<phase, table_vars, next_id, calls, shadow>>

\* The command and the sink of an enqueue task: those Start bound (the
\* Reset, command 0), or those of a client's EnqueueCommand.
EnqueueArgs(task, op_codes) ==
  IF "command" \in DOMAIN task
  THEN {[command |-> task.command, sink |-> task.sink]}
  ELSE {[command |-> [id |-> next_id, op |-> op], sink |-> "client"] :
          op \in op_codes}

handle_enqueue_command_with_complete ==
  /\ Turn("handle_enqueue_command_with_complete")
  /\ \E a \in EnqueueArgs(Head(tasks), CompleteOpCodes) :
       /\ SetEngine(HandleEnqueue(Engine,
             CommandQueueEntry(a.command, FALSE, a.sink)))
       /\ next_id' = IF a.command.id = next_id THEN next_id + 1 ELSE next_id
  /\ tasks' = Tail(tasks)
  /\ lookup' = NoLookup
  /\ view' = NoView
  /\ UNCHANGED <<phase, fatal, table_vars, calls, shadow>>

handle_enqueue_command_with_status ==
  /\ Turn("handle_enqueue_command_with_status")
  /\ \E a \in EnqueueArgs(Head(tasks), StatusOpCodes) :
       /\ SetEngine(HandleEnqueue(Engine,
             CommandQueueEntry(a.command, TRUE, a.sink)))
       /\ next_id' = IF a.command.id = next_id THEN next_id + 1 ELSE next_id
  /\ tasks' = Tail(tasks)
  /\ lookup' = NoLookup
  /\ view' = NoView
  /\ UNCHANGED <<phase, fatal, table_vars, calls, shadow>>

\* The Reset sink, run on the handler.
fail_if_reset_complete_not_success ==
  /\ Turn("fail_if_reset_complete_not_success")
  /\ \E reset_complete \in ResetCompleteViews :
       fatal' = IF ~reset_complete.valid THEN Fatal("invalid_view")
                ELSE IF ~reset_complete.success THEN Fatal("reset_failed")
                ELSE NoFatal
  /\ tasks' = Tail(tasks)
  /\ lookup' = NoLookup
  /\ view' = NoView
  /\ UNCHANGED <<phase, engine_vars, table_vars, next_id, calls, trace,
                 shadow>>

\* The alarm fires: on_hci_timeout(op_code).
on_hci_timeout(op_code) ==
  /\ Running
  /\ hci_timeout_alarm_ = <<op_code>>
  /\ fatal' = [why |-> "timeout", op |-> op_code]
  /\ UNCHANGED <<phase, tasks, engine_vars, table_vars, next_id, calls,
                 trace, lookup, view, shadow>>

---------------------------------------------------------------------------
(* The event router.                                                       *)

\* ContextualCallback::Invoke of a table entry: a callback bound on the
\* layer's handler becomes a task there; a client's runs on the client's.
InvokeHandler(h) ==
  IF h \in EngineHandlers THEN <<[t |-> h]>> ELSE <<>>

\* on_hci_event aborting on an event code without a handler.
on_hci_event_strict ==
  /\ Turn("on_hci_event")
  /\ \E event_code \in HalEventCodes :
       /\ lookup' = Lookup(event_code, event_handlers_[event_code])
       /\ IF event_handlers_[event_code] = NoHandler
          THEN tasks' = Tail(tasks) /\ fatal' = Fatal("unhandled_event")
          ELSE /\ tasks' = Tail(tasks) \o
                            InvokeHandler(event_handlers_[event_code])
               /\ fatal' = NoFatal
  /\ view' = NoView
  /\ UNCHANGED <<phase, engine_vars, table_vars, next_id, calls, trace,
                 shadow>>

on_hci_event ==
  /\ Turn("on_hci_event")
  /\ \E event_code \in HalEventCodes :
       IF event_handlers_[event_code] = NoHandler
       THEN /\ tasks' = Tail(tasks)
            /\ lookup' = Lookup(event_code, NoHandler)
       ELSE /\ tasks' = Tail(tasks) \o
                         InvokeHandler(event_handlers_[event_code])
            /\ lookup' = Lookup(event_code, event_handlers_[event_code])
  /\ view' = NoView
  /\ UNCHANGED <<phase, fatal, engine_vars, table_vars, next_id, calls,
                 trace, shadow>>

on_le_meta_event ==
  /\ Turn("on_le_meta_event")
  /\ \E event \in LeMetaEventViews :
       LET subevent_code == event.sub
       IN IF ~event.valid
          THEN fatal' = Fatal("invalid_view") /\ lookup' = NoLookup
          ELSE IF subevent_handlers_[subevent_code] = NoHandler
          THEN /\ fatal' = Fatal("unhandled_le_event")
               /\ lookup' = Lookup(subevent_code, NoHandler)
          ELSE /\ fatal' = NoFatal
               /\ lookup' = Lookup(subevent_code,
                                   subevent_handlers_[subevent_code])
  /\ view' = NoView
  /\ tasks' = Tail(tasks)
  /\ UNCHANGED <<phase, engine_vars, table_vars, next_id, calls, trace,
                 shadow>>

drop ==
  /\ Turn("drop")
  /\ tasks' = Tail(tasks)
  /\ lookup' = NoLookup
  /\ view' = NoView
  /\ UNCHANGED <<phase, fatal, engine_vars, table_vars, next_id, calls,
                 trace, shadow>>

\* A map after operator[]= / after erase of a present key.
MapSet(m, k, h) == [m EXCEPT ![k] = h]

MapErase(m, k) == [m EXCEPT ![k] = NoHandler]

Present(m) == {k \in DOMAIN m : m[k] # NoHandler}

\* erase(find(k)) of an absent key is erase(end()): undefined behaviour.
\* The outcomes modelled: the process crashes (TRUE in `crash`), or it goes
\* on with the map as it was, or with some entry of the map lost.
EraseEnd(m) ==
  {[crash |-> TRUE, map |-> m], [crash |-> FALSE, map |-> m]}
  \cup {[crash |-> FALSE, map |-> MapErase(m, k)] : k \in Present(m)}

\* The arguments of a register task: those Start bound, or a client's.
RegisterArgs(task, codes) ==
  IF "code" \in DOMAIN task
  THEN {[code |-> task.code, h |-> task.h]}
  ELSE [code : codes, h : ClientHandlers]

\* handle_register_event_handler without its ASSERT_LOG: a second handler
\* replaces the first.
handle_register_event_handler_overwriting ==
  /\ Turn("handle_register_event_handler")
  /\ \E a \in RegisterArgs(Head(tasks), ClientEventCodes) :
       /\ lookup' = Lookup(a.code, event_handlers_[a.code])
       /\ fatal' = NoFatal
       /\ event_handlers_' = MapSet(event_handlers_, a.code, a.h)
       /\ shadow' = [shadow EXCEPT !.event[a.code] = a.h]
  /\ tasks' = Tail(tasks)
  /\ view' = NoView
  /\ UNCHANGED <<phase, engine_vars, subevent_handlers_, next_id, calls,
                 trace>>

handle_register_event_handler ==
  /\ Turn("handle_register_event_handler")
  /\ \E a \in RegisterArgs(Head(tasks), ClientEventCodes) :
       LET event_code == a.code
           event_handler == a.h
       IN /\ lookup' = Lookup(event_code, event_handlers_[event_code])
          /\ IF event_handlers_[event_code] # NoHandler
             THEN /\ fatal' = Fatal("second_handler")
                  /\ UNCHANGED <<event_handlers_, shadow>>
             ELSE /\ fatal' = NoFatal
                  /\ event_handlers_' =
                       MapSet(event_handlers_, event_code, event_handler)
                  /\ shadow' =
                       [shadow EXCEPT !.event[event_code] = event_handler]
  /\ tasks' = Tail(tasks)
  /\ view' = NoView
  /\ UNCHANGED <<phase, engine_vars, subevent_handlers_, next_id, calls,
                 trace>>

handle_unregister_event_handler ==
  /\ Turn("handle_unregister_event_handler")
  /\ \E event_code \in ClientEventCodes :
       /\ lookup' = Lookup(event_code, event_handlers_[event_code])
       /\ IF event_handlers_[event_code] # NoHandler
          THEN /\ fatal' = NoFatal
               /\ event_handlers_' = MapErase(event_handlers_, event_code)
               /\ shadow' = [shadow EXCEPT !.event[event_code] = NoHandler]
          ELSE \E o \in EraseEnd(event_handlers_) :
                 /\ fatal' = IF o.crash THEN Fatal("erase_end") ELSE NoFatal
                 /\ event_handlers_' = o.map
                 /\ shadow' = shadow
  /\ tasks' = Tail(tasks)
  /\ view' = NoView
  /\ UNCHANGED <<phase, engine_vars, subevent_handlers_, next_id, calls,
                 trace>>

handle_register_le_event_handler ==
  /\ Turn("handle_register_le_event_handler")
  /\ \E a \in RegisterArgs(Head(tasks), ClientSubeventCodes) :
       LET subevent_code == a.code
           subevent_handler == a.h
       IN /\ lookup' =
               Lookup(subevent_code, subevent_handlers_[subevent_code])
          /\ IF subevent_handlers_[subevent_code] # NoHandler
             THEN /\ fatal' = Fatal("second_handler")
                  /\ UNCHANGED <<subevent_handlers_, shadow>>
             ELSE /\ fatal' = NoFatal
                  /\ subevent_handlers_' =
                       MapSet(subevent_handlers_, subevent_code,
                              subevent_handler)
                  /\ shadow' = [shadow EXCEPT
                                 !.subevent[subevent_code] = subevent_handler]
  /\ tasks' = Tail(tasks)
  /\ view' = NoView
  /\ UNCHANGED <<phase, engine_vars, event_handlers_, next_id, calls,
                 trace>>

handle_unregister_le_event_handler ==
  /\ Turn("handle_unregister_le_event_handler")
  /\ \E subevent_code \in ClientSubeventCodes :
       /\ lookup' =
            Lookup(subevent_code, subevent_handlers_[subevent_code])
       /\ IF subevent_handlers_[subevent_code] # NoHandler
          THEN /\ fatal' = NoFatal
               /\ subevent_handlers_' =
                    MapErase(subevent_handlers_, subevent_code)
               /\ shadow' =
                    [shadow EXCEPT !.subevent[subevent_code] = NoHandler]
          ELSE \E o \in EraseEnd(subevent_handlers_) :
                 /\ fatal' = IF o.crash THEN Fatal("erase_end") ELSE NoFatal
                 /\ subevent_handlers_' = o.map
                 /\ shadow' = shadow
  /\ tasks' = Tail(tasks)
  /\ view' = NoView
  /\ UNCHANGED <<phase, engine_vars, event_handlers_, next_id, calls,
                 trace>>

---------------------------------------------------------------------------
(* The public interface of HciLayer and the HAL callbacks: each posts one  *)
(* task on the handler (CallOn).                                           *)

Post(task) == tasks' = Append(tasks, task)

\* Room on the handler for one more task of a client or of the HAL.
CanPost == Running /\ Len(tasks) < MaxTasks

RegisterTask(event_code, event_handler) ==
  [t |-> "handle_register_event_handler", code |-> event_code,
   h |-> event_handler]

\* A call of a client: one task for the handler.
ClientCall(t) ==
  /\ CanPost
  /\ calls < MaxCalls
  /\ Post([t |-> t])
  /\ calls' = calls + 1
  /\ UNCHANGED <<phase, fatal, engine_vars, table_vars, next_id, trace,
                 lookup, view, shadow>>

EnqueueCommandComplete ==
  ClientCall("handle_enqueue_command_with_complete")

EnqueueCommandStatus ==
  ClientCall("handle_enqueue_command_with_status")

RegisterEventHandler ==
  ClientCall("handle_register_event_handler")

UnregisterEventHandler ==
  ClientCall("handle_unregister_event_handler")

RegisterLeEventHandler ==
  ClientCall("handle_register_le_event_handler")

UnregisterLeEventHandler ==
  ClientCall("handle_unregister_le_event_handler")

\* hal_callbacks::hciEventReceived, on the HAL thread.  `well_formed` is
\* EventPacketView::IsValid of the bytes.
hciEventReceived(well_formed) ==
  /\ CanPost
  /\ IF well_formed
     THEN Post([t |-> "on_hci_event"]) /\ fatal' = NoFatal
     ELSE fatal' = Fatal("invalid_event") /\ tasks' = tasks
  /\ UNCHANGED <<phase, engine_vars, table_vars, next_id, calls, trace,
                 lookup, view, shadow>>

Start ==
  /\ phase = "constructed"
  /\ phase' = "started"
  /\ tasks' = tasks \o
       << RegisterTask("COMMAND_COMPLETE", "on_command_complete"),
          RegisterTask("COMMAND_STATUS", "on_command_status"),
          RegisterTask("LE_META_EVENT", "on_le_meta_event"),
          RegisterTask("PAGE_SCAN_REPETITION_MODE_CHANGE", "drop"),
          RegisterTask("MAX_SLOTS_CHANGE", "drop"),
          RegisterTask("VENDOR_SPECIFIC", "drop"),
          [t |-> "handle_enqueue_command_with_complete",
           command |-> [id |-> 0, op |-> RESET],
           sink |-> "fail_if_reset_complete_not_success"] >>
  /\ UNCHANGED <<fatal, engine_vars, table_vars, next_id, calls, trace,
                 lookup, view, shadow>>

\* A Stop that frees the engine without running ~impl's body: the alarm
\* stays scheduled and the queue keeps its entries.
StopWithoutDestructor ==
  /\ Running
  /\ phase' = "stopped"
  /\ event_handlers_' = [c \in EventCodes |-> NoHandler]
  /\ subevent_handlers_' = [s \in SubeventCodes |-> NoHandler]
  /\ shadow' = [event |-> event_handlers_', subevent |-> subevent_handlers_']
  /\ UNCHANGED <<fatal, tasks, engine_vars, next_id, calls, trace, lookup,
                 view>>

\* Stop deletes impl_: ~impl deletes the alarm and clears command_queue_,
\* and the destructors of the members free the entries of both maps.
Stop ==
  /\ Running
  /\ phase' = "stopped"
  /\ hci_timeout_alarm_' = <<>>
  /\ command_queue_' = <<>>
  /\ event_handlers_' = [c \in EventCodes |-> NoHandler]
  /\ subevent_handlers_' = [s \in SubeventCodes |-> NoHandler]
  /\ shadow' = [event |-> event_handlers_', subevent |-> subevent_handlers_']
  /\ UNCHANGED <<fatal, tasks, command_credits_, waiting_command_, next_id,
                 calls, trace, lookup, view>>

---------------------------------------------------------------------------

\* The handler runs the task at the head of its queue.
HandlerTurn ==
  \/ handle_register_event_handler
  \/ handle_unregister_event_handler
  \/ handle_register_le_event_handler
  \/ handle_unregister_le_event_handler
  \/ handle_enqueue_command_with_complete
  \/ handle_enqueue_command_with_status
  \/ on_hci_event
  \/ on_command_complete
  \/ on_command_status
  \/ on_le_meta_event
  \/ drop
  \/ fail_if_reset_complete_not_success

Next ==
  \/ Start
  \/ Stop
  \/ EnqueueCommandComplete
  \/ EnqueueCommandStatus
  \/ RegisterEventHandler
  \/ UnregisterEventHandler
  \/ RegisterLeEventHandler
  \/ UnregisterLeEventHandler
  \/ \E well_formed \in BOOLEAN : hciEventReceived(well_formed)
  \/ HandlerTurn
  \/ \E op \in ResponseOpCodes : on_hci_timeout(op)

Spec == Init /\ [][Next]_vars

\* The handler runs every task posted to it, and the alarm fires when the
\* time it was scheduled with has passed.
FairSpec ==
  /\ Spec
  /\ WF_vars(HandlerTurn)
  /\ \A op \in ResponseOpCodes : WF_vars(on_hci_timeout(op))

---------------------------------------------------------------------------
(* The layer under a controller that answers every command it is sent,     *)
(* and sends nothing else, with clients that only enqueue commands, until  *)
(* the host stops the layer.                                               *)

\* An event of the controller is on its way through the handler.
AnswerPending ==
  \E k \in 1..Len(tasks) :
    tasks[k].t \in {"on_hci_event", "on_command_complete",
                    "on_command_status"}

\* The response kind the command in flight was enqueued for.
AnswerKind ==
  IF Head(command_queue_).waiting_for_status_
  THEN "COMMAND_STATUS"
  ELSE "COMMAND_COMPLETE"

\* The controller answers the command in flight, once: the HAL's callback
\* posts the event.
ControllerAnswers ==
  /\ waiting_command_ # NONE
  /\ ~AnswerPending
  /\ hciEventReceived(TRUE)

\* The event is the answer: its code is the kind the command expects.
RouteAnswer == on_hci_event /\ lookup'.code = AnswerKind

\* The answer is a well-formed response carrying the outstanding opcode,
\* with any credit count.
AnswerComplete ==
  on_command_complete /\ view'.valid /\ view'.op = waiting_command_

AnswerStatus ==
  on_command_status /\ view'.valid /\ view'.op = waiting_command_

\* The Reset's sink reads a well-formed Reset complete.
ResetAnswered ==
  fail_if_reset_complete_not_success /\ fatal'.why # "invalid_view"

WellBehavedTurn ==
  \/ handle_register_event_handler
  \/ handle_enqueue_command_with_complete
  \/ handle_enqueue_command_with_status
  \/ RouteAnswer
  \/ AnswerComplete
  \/ AnswerStatus
  \/ ResetAnswered

WellBehavedNext ==
  \/ Start
  \/ Stop
  \/ EnqueueCommandComplete
  \/ EnqueueCommandStatus
  \/ ControllerAnswers
  \/ WellBehavedTurn

\* The handler runs every task posted to it, and the controller answers in
\* time: the alarm does not fire.
WellBehavedSpec ==
  /\ Init
  /\ [][WellBehavedNext]_vars
  /\ WF_vars(WellBehavedTurn)
  /\ WF_vars(ControllerAnswers)

---------------------------------------------------------------------------
(* The facade getters.  Each registers the caller's handler for the codes  *)
(* of its event set, one RegisterEventHandler / RegisterLeEventHandler     *)
(* call per code, and returns the facade.                                  *)

AclConnectionEvents == <<"CONNECTION_COMPLETE", "CONNECTION_REQUEST">>

SecurityEvents == <<"ENCRYPTION_CHANGE">>

LeConnectionManagementEvents == <<"CONNECTION_COMPLETE_LE">>

LeSecurityEvents == <<"LONG_TERM_KEY_REQUEST">>

LeAdvertisingEvents == <<"SCAN_REQUEST_RECEIVED">>

LeScanningEvents == <<"ADVERTISING_REPORT">>

\* The tasks the loop of a getter posts, in the order of the event set.
FacadeTasks(t, events, event_handler) ==
  [k \in 1..Len(events) |->
     [t |-> t, code |-> events[k], h |-> event_handler]]

\* The getters: the register task each posts, and its event set.
Facades ==
  {[t |-> "handle_register_event_handler", events |-> AclConnectionEvents],
   [t |-> "handle_register_event_handler", events |-> SecurityEvents],
   [t |-> "handle_register_le_event_handler",
    events |-> LeConnectionManagementEvents],
   [t |-> "handle_register_le_event_handler", events |-> LeSecurityEvents],
   [t |-> "handle_register_le_event_handler",
    events |-> LeAdvertisingEvents],
   [t |-> "handle_register_le_event_handler", events |-> LeScanningEvents]}

FacadeCodes == UNION {{f.events[k] : k \in 1..Len(f.events)} : f \in Facades}

\* The handler registered for the code, in the table the code belongs to.
HandlerIn(code, events, subevents) ==
  IF code \in EventCodes THEN events[code] ELSE subevents[code]

HandlerOf(code) == HandlerIn(code, event_handlers_, subevent_handlers_)

\* The posted registrations of the code the handler has not run yet.
PendingRegistrations(code) ==
  {k \in 1..Len(tasks) : "code" \in DOMAIN tasks[k] /\ tasks[k].code = code}

\* The facade has a code that is registered or about to be.
FacadeInUse(events) ==
  \E k \in 1..Len(events) :
    HandlerOf(events[k]) # NoHandler \/ PendingRegistrations(events[k]) # {}

\* Room for a client to ask for one more kind of facade.
CanAcquire(events) ==
  \/ FacadeInUse(events)
  \/ Cardinality({f \in Facades : FacadeInUse(f.events)}) < MaxFacades

GetInterface(t, events) ==
  /\ CanPost
  /\ CanAcquire(events)
  /\ \E event_handler \in ClientHandlers :
       tasks' = tasks \o FacadeTasks(t, events, event_handler)
  /\ UNCHANGED <<phase, fatal, engine_vars, table_vars, next_id, calls,
                 trace, lookup, view, shadow>>

GetAclConnectionInterface ==
  GetInterface("handle_register_event_handler", AclConnectionEvents)

GetLeAclConnectionInterface ==
  GetInterface("handle_register_le_event_handler",
               LeConnectionManagementEvents)

GetSecurityInterface ==
  GetInterface("handle_register_event_handler", SecurityEvents)

GetLeSecurityInterface ==
  GetInterface("handle_register_le_event_handler", LeSecurityEvents)

GetLeAdvertisingInterface ==
  GetInterface("handle_register_le_event_handler", LeAdvertisingEvents)

GetLeScanningInterface ==
  GetInterface("handle_register_le_event_handler", LeScanningEvents)

\* The tasks the handler runs when the clients acquire facades, register
\* and unregister handlers, no client enqueues a command and the controller
\* is silent.
FacadeTurn ==
  \/ handle_register_event_handler
  \/ handle_unregister_event_handler
  \/ handle_register_le_event_handler
  \/ handle_unregister_le_event_handler
  \/ handle_enqueue_command_with_complete

FacadeNext ==
  \/ Start
  \/ Stop
  \/ RegisterEventHandler
  \/ UnregisterEventHandler
  \/ RegisterLeEventHandler
  \/ UnregisterLeEventHandler
  \/ GetAclConnectionInterface
  \/ GetLeAclConnectionInterface
  \/ GetSecurityInterface
  \/ GetLeSecurityInterface
  \/ GetLeAdvertisingInterface
  \/ GetLeScanningInterface
  \/ FacadeTurn

\* The layer while its facades are acquired: the handler runs every task
\* posted to it.
FacadeSpec ==
  /\ Init
  /\ [][FacadeNext]_vars
  /\ WF_vars(FacadeTurn)

---------------------------------------------------------------------------
(* Properties.  They read the history of the engine off `trace`.           *)

Sends == SelectSeq(trace, LAMBDA r : r.e = "send")

Sinks == SelectSeq(trace, LAMBDA r : r.e = "sink")

Enqs == SelectSeq(trace, LAMBDA r : r.e = "enq")

\* Identities of the commands: Start's Reset is 0, the clients' are 1, 2, ...
CommandIds == 0..MaxCalls

\* C1: at most one command is in flight.  In every reachable state the
\* number of HAL sendHciCommand calls made so far minus the number of
\* responses that completed a command is 0 or 1.
AtMostOneInFlight == Len(Sends) - Len(Sinks) \in {0, 1}

\* A command is in flight and another waits behind it in the queue, with
\* a credit the controller has granted since.
QueuedBehindInFlight ==
  /\ Len(Sends) = 1
  /\ Len(Sinks) = 0
  /\ Len(command_queue_) = 2
  /\ waiting_command_ = Head(command_queue_).command.op
  /\ command_credits_ >= 1
  /\ Running

\* C2: FIFO dispatch.  With e1..en the enqueues in the order the handler
\* processed them, the k-th HAL sendHciCommand call carries ek's command
\* and opcode and the k-th sink invoked is ek's sink.
FifoDispatch ==
  LET e == Enqs
      sent == Sends
      sunk == Sinks
  IN /\ Len(sunk) <= Len(sent)
     /\ Len(sent) <= Len(e)
     /\ \A k \in 1..Len(sent) : sent[k].id = e[k].id /\ sent[k].op = e[k].op
     /\ \A k \in 1..Len(sunk) : sunk[k].id = e[k].id /\ sunk[k].op = e[k].op

\* The Reset and then a client's command with a status sink were enqueued,
\* sent and completed.
TwoCompletedInOrder ==
  /\ Len(Sinks) = 2
  /\ Sinks[1].op = RESET
  /\ Sinks[2].op = OpCode.CREATE_CONNECTION

\* The records of `trace` of kind e about the command id.
Records(e, id) == {k \in 1..Len(trace) : trace[k].e = e /\ trace[k].id = id}

SinkCount(id) == Cardinality(Records("sink", id))

Enqueued(id) == Records("enq", id) # {}

Sent(id) == Records("send", id) # {}

InQueue(id) ==
  \E k \in 1..Len(command_queue_) : command_queue_[k].command.id = id

\* The command is the one in flight: it heads the queue, the engine waits
\* for its opcode and the alarm is scheduled with that opcode.
InFlight(id) ==
  /\ command_queue_ # <<>>
  /\ Head(command_queue_).command.id = id
  /\ waiting_command_ = Head(command_queue_).command.op
  /\ hci_timeout_alarm_ = <<waiting_command_>>

\* The process has aborted, and the host had not shut the layer down.
Aborted == fatal # NoFatal /\ phase # "stopped"

\* C3 as the specification states it: the sink of every enqueued command is
\* invoked exactly once, never twice and eventually once, unless the host
\* shuts down first.  An aborted process takes no further step, so by then
\* every enqueued command's sink must have been invoked once.
OneShotSinksEventuallyOnce ==
  \A id \in CommandIds :
    /\ SinkCount(id) <= 1
    /\ Aborted /\ Enqueued(id) => SinkCount(id) = 1

\* C3, amended: the sink of a command is never invoked twice; it has not
\* been invoked while its entry is in the queue, and it has been invoked
\* exactly once when a response has removed the entry from the queue.  It
\* is not invoked at all when the process aborts or the host shuts down
\* before that response.
OneShotSinks ==
  \A id \in CommandIds :
    /\ SinkCount(id) <= 1
    /\ SinkCount(id) = 1 => Enqueued(id)
    /\ InQueue(id) => SinkCount(id) = 0
    /\ Enqueued(id) /\ ~InQueue(id) /\ phase # "stopped" => SinkCount(id) = 1

\* The process aborted on the timeout of a client's command: the sink of
\* the Reset was invoked once, that of the client's command, still in the
\* queue, never.
AbortedWithSinkPending ==
  /\ fatal.why = "timeout"
  /\ SinkCount(0) = 1
  /\ Len(command_queue_) = 1
  /\ SinkCount(Head(command_queue_).command.id) = 0

\* C4 as the specification states it: a command handed to the HAL either
\* has its sink invoked or the process aborts on the timeout, with a fatal
\* naming the command's opcode.  An aborted process takes no further step,
\* so a sent command whose sink was not invoked by then was aborted on its
\* timeout.
SinkOrTimeoutAbort ==
  \A k \in 1..Len(Sends) :
    Aborted /\ SinkCount(Sends[k].id) = 0
      => fatal = [why |-> "timeout", op |-> Sends[k].op]

\* C4, amended: a command handed to the HAL stays in flight, at the head of
\* the queue with the alarm scheduled for its opcode, until its sink is
\* invoked, the process aborts or the host shuts down; a timeout abort
\* names the opcode of the command in flight; and one of the three
\* eventually happens, the abort being the timeout or any other fatal
\* failure of the process.
SentCommandNeverAbandoned ==
  /\ [](\A id \in CommandIds :
         Sent(id) /\ SinkCount(id) = 0 /\ Running => InFlight(id))
  /\ [](fatal.why = "timeout" =>
         /\ fatal.op = waiting_command_
         /\ \E id \in CommandIds :
              Sent(id) /\ SinkCount(id) = 0 /\ InFlight(id))
  /\ \A id \in CommandIds :
       Sent(id) ~> (SinkCount(id) = 1 \/ fatal # NoFatal \/ phase = "stopped")

\* The process aborted on a command status for a command in flight that
\* expects a command complete: the command's sink was not invoked and the
\* abort is not the timeout.
AbortedInFlightNotByTimeout ==
  /\ fatal.why = "status_for_complete"
  /\ \E id \in CommandIds : Sent(id) /\ SinkCount(id) = 0 /\ InFlight(id)

\* The step is the handler's turn of task t.
Ran(t) ==
  /\ Turn(t)
  /\ phase' = phase
  /\ calls' = calls
  /\ tasks' # tasks
  /\ Len(tasks') <= Len(tasks)

RanResponse == Ran("on_command_status") \/ Ran("on_command_complete")

\* The step handed a command to the HAL.
SentInStep == trace' # trace /\ trace'[Len(trace')].e = "send"

\* C5: a command status or command complete with an opcode other than NONE
\* aborts the process, without invoking a sink and without popping the
\* queue, when the queue is empty, or its opcode is not the outstanding
\* one, or its kind is not the kind the head entry expects; a command
\* status for the outstanding command, which expects a command complete,
\* aborts with the status-for-complete mismatch.
ProtocolViolationFatal ==
  [][\A t \in {"on_command_status", "on_command_complete"} :
       /\ Ran(t)
       /\ view'.valid
       /\ view'.op # NONE
       /\ \/ command_queue_ = <<>>
          \/ waiting_command_ # view'.op
          \/ Head(command_queue_).waiting_for_status_
               # (t = "on_command_status")
       => /\ fatal' # NoFatal
          /\ trace' = trace
          /\ tasks' = Tail(tasks)
          /\ command_queue_' = command_queue_
          /\ waiting_command_' = waiting_command_
          /\ hci_timeout_alarm_' = hci_timeout_alarm_
          /\ ( /\ t = "on_command_status"
               /\ command_queue_ # <<>>
               /\ waiting_command_ = view'.op
               => fatal'.why = "status_for_complete" )]_vars

\* A client's command expecting a command complete was answered with a
\* command status carrying its opcode, and the process aborted on the
\* mismatch with the entry still at the head of the queue.
StatusForCompleteAbort ==
  /\ fatal.why = "status_for_complete"
  /\ view.valid
  /\ view.op = OpCode.READ_BD_ADDR
  /\ waiting_command_ = view.op
  /\ ~Head(command_queue_).waiting_for_status_
  /\ SinkCount(Head(command_queue_).command.id) = 0

RegisterTurns ==
  {"handle_register_event_handler", "handle_register_le_event_handler"}

UnregisterTurns ==
  {"handle_unregister_event_handler", "handle_unregister_le_event_handler"}

\* C6: for both tables, a register of a key that has a handler is a fatal
\* failure, an unregister of a key that has no handler is a fatal failure,
\* and after the calls that succeeded each key maps to the handler of its
\* most recent register not followed by an unregister.
HandlerExclusivity ==
  [][/\ \A t \in RegisterTurns :
          Ran(t) /\ lookup'.found # NoHandler => fatal' # NoFatal
     /\ \A t \in UnregisterTurns :
          Ran(t) /\ lookup'.found = NoHandler => fatal' # NoFatal
     /\ fatal' = NoFatal =>
          /\ event_handlers_' = shadow'.event
          /\ subevent_handlers_' = shadow'.subevent]_vars

\* C7: an event whose code has no handler is dropped: no handler is
\* invoked, the process goes on, and the queue, the credits, the
\* outstanding opcode, the timeout and both tables are unchanged; an event
\* whose code has a handler, after a drop as before, is dispatched to it.
\* An LE meta event whose subevent code has no handler aborts the process.
DispatchAsymmetry ==
  [][/\ Ran("on_hci_event") /\ lookup'.found = NoHandler =>
          /\ tasks' = Tail(tasks)
          /\ fatal' = NoFatal
          /\ UNCHANGED <<phase, engine_vars, table_vars, trace>>
     /\ Ran("on_hci_event") /\ lookup'.found # NoHandler =>
          /\ tasks' = Tail(tasks) \o InvokeHandler(lookup'.found)
          /\ fatal' = NoFatal
     /\ Ran("on_le_meta_event") /\ lookup'.found = NoHandler =>
          fatal' = Fatal("unhandled_le_event")]_vars

\* A connection complete event, which has no handler, was dropped while a
\* command was in flight, and the layer is running.
EventDroppedInFlight ==
  /\ lookup = [by |-> "on_hci_event", code |-> "CONNECTION_COMPLETE",
               found |-> NoHandler]
  /\ Running
  /\ tasks = <<>>
  /\ waiting_command_ # NONE
  /\ hci_timeout_alarm_ = <<waiting_command_>>

\* C8: when the handler has processed a command complete or command status
\* carrying the credit count c, credits-only ones included, the credits
\* are c if it sent no command and 0 if it sent one; between the handler's
\* turns, and in its other turns unless they send a command, the credits
\* do not change.
CreditAccounting ==
  [][/\ RanResponse /\ fatal' = NoFatal =>
          command_credits_' = IF SentInStep THEN 0 ELSE view'.ncp
     /\ command_credits_' # command_credits_ =>
          RanResponse \/ (SentInStep /\ command_credits_' = 0)]_vars

\* A credits-only response carrying the largest credit count let the
\* engine send the command that was waiting for a credit.
CreditOnlyResponseSends ==
  /\ view.valid
  /\ view.op = NONE
  /\ view.ncp = MaxCredits
  /\ command_credits_ = 0
  /\ trace[Len(trace)].e = "send"
  /\ Running

\* By the time of each send, as many sinks were invoked as commands sent.
SinkBeforeNextSend ==
  \A i \in 1..Len(trace) :
    trace[i].e = "send" =>
      Cardinality({j \in 1..(i - 1) : trace[j].e = "sink"})
        = Cardinality({j \in 1..(i - 1) : trace[j].e = "send"})

\* C9: the k-th sink invocation precedes the (k+1)-th send; and when a
\* response carrying a credit completes the command D at the head of the
\* queue with E behind it, the handler's turn invokes D's sink, then
\* hands E to the HAL, and leaves the timeout scheduled with E's opcode.
ResponseOrdering ==
  /\ []SinkBeforeNextSend
  /\ [][/\ RanResponse
         /\ fatal' = NoFatal
         /\ view'.op # NONE
         /\ view'.ncp >= 1
         /\ Len(command_queue_) >= 2
         => LET D == command_queue_[1]
                E == command_queue_[2]
            IN /\ trace' = trace \o <<SinkRecord(D),
                                      SendRecord(E, E.command.op)>>
               /\ command_queue_' = Tail(command_queue_)
               /\ waiting_command_' = E.command.op
               /\ hci_timeout_alarm_' = <<E.command.op>>]_vars

\* The commands D, Start's Reset, and E, a client's, were enqueued: the
\* response to D had D's sink invoked and then E sent, and the timeout is
\* scheduled for E's opcode.
PairHandedOver ==
  /\ Len(trace) >= 2
  /\ LET D == trace[Len(trace) - 1]
         E == trace[Len(trace)]
     IN /\ D.e = "sink" /\ D.id = 0
        /\ E.e = "send" /\ E.id = 1
        /\ D.op # E.op
        /\ view.valid /\ view.op = D.op
        /\ waiting_command_ = E.op
        /\ hci_timeout_alarm_ = <<E.op>>

\* C10: after Start every event with the code COMMAND_COMPLETE is handed to
\* on_command_complete and every event with the code COMMAND_STATUS to
\* on_command_status, whatever register and unregister calls the clients
\* made (of the calls, those whose behaviour is defined: the tables are
\* what the calls that returned should have produced).
ResponseSteering ==
  [][/\ Ran("on_hci_event")
     /\ event_handlers_ = shadow.event
     /\ lookup'.code \in {"COMMAND_COMPLETE", "COMMAND_STATUS"}
     => tasks' = Tail(tasks) \o
          <<[t |-> IF lookup'.code = "COMMAND_COMPLETE"
                   THEN "on_command_complete"
                   ELSE "on_command_status"]>>]_vars

CreditInvariant ==
  Running /\ waiting_command_ # NONE => command_credits_ = 0

\* C12, amended: with a command in flight the credits are 0 or the count
\* of the latest credit-only response processed since the send.  A turn
\* that sends leaves the credits at 0; a response turn that leaves a
\* command in flight without sending is a credit-only one and sets the
\* credits to its count; no other step with a command in flight after it
\* changes the credits.
CreditsWhileInFlight ==
  [][Running' /\ waiting_command_' # NONE
     => IF SentInStep THEN command_credits_' = 0
        ELSE IF RanResponse
          THEN /\ view'.valid
               /\ view'.op = NONE
               /\ command_credits_' = view'.ncp
               /\ waiting_command_' = waiting_command_
          ELSE command_credits_' = command_credits_]_vars

\* A credit-only response arrived while the Reset was in flight: the
\* engine holds a credit and still waits for the Reset's response.
CreditGrantedInFlight ==
  /\ Running
  /\ waiting_command_ = RESET
  /\ command_credits_ >= 1
  /\ view.valid /\ view.op = NONE
  /\ hci_timeout_alarm_ = <<RESET>>

\* C13: coupling of the timeout and the outstanding opcode.  While the
\* engine exists the alarm is scheduled exactly when waiting_command_ is
\* not NONE, and it is scheduled with that opcode; so a timeout abort
\* happens only with a command in flight, names its opcode, and that
\* command's sink has not been invoked.
TimeoutCoupling ==
  /\ [](phase # "stopped" =>
          hci_timeout_alarm_ =
            IF waiting_command_ = NONE THEN <<>> ELSE <<waiting_command_>>)
  /\ [][fatal' # fatal /\ fatal'.why = "timeout"
        => /\ waiting_command_ # NONE
           /\ fatal'.op = waiting_command_
           /\ \E id \in CommandIds : InFlight(id) /\ SinkCount(id) = 0]_vars

\* The Reset was answered, the client's command was sent next, and the
\* timeout fired naming that command's opcode.
TimeoutNamesSecondCommand ==
  /\ fatal.why = "timeout"
  /\ fatal.op = waiting_command_
  /\ fatal.op # RESET
  /\ Len(Sinks) = 1
  /\ Len(Sends) = 2

RanEnqueue ==
  \/ Ran("handle_enqueue_command_with_complete")
  \/ Ran("handle_enqueue_command_with_status")

\* C14: send scheduling.  A command is handed to the HAL only by an
\* enqueue or a response turn, at a point of the turn where the credits
\* are positive, no command is outstanding and the queue is not empty,
\* and it is the head of the queue that is sent; and since each of these
\* turns ends in send_next_command, no state between turns of the running
\* engine has credits > 0, waiting_command_ = NONE and a non-empty queue.
SendScheduling ==
  /\ [](Running =>
          ~(/\ command_credits_ > 0
            /\ waiting_command_ = NONE
            /\ command_queue_ # <<>>))
  /\ [][SentInStep
        => /\ command_queue_' # <<>>
           /\ trace'[Len(trace')] =
                SendRecord(Head(command_queue_'),
                           Head(command_queue_').command.op)
           /\ \/ /\ RanEnqueue
                 /\ command_credits_ > 0
                 /\ waiting_command_ = NONE
                 /\ Len(trace') = Len(trace) + 2
              \/ /\ RanResponse
                 /\ view'.ncp > 0
                 /\ IF view'.op = NONE
                    THEN /\ waiting_command_ = NONE
                         /\ command_queue_ # <<>>
                         /\ Len(trace') = Len(trace) + 1
                    ELSE /\ waiting_command_ = view'.op
                         /\ Len(command_queue_) >= 2
                         /\ Len(trace') = Len(trace) + 2]_vars

\* The Reset was answered while the queue was empty; the client's command,
\* enqueued on the idle engine, was sent by the enqueue turn itself.
SentByEnqueueTurn ==
  /\ Len(trace) = 5
  /\ trace[3].e = "sink" /\ trace[3].id = 0
  /\ trace[4].e = "enq" /\ trace[4].id = 1
  /\ trace[5].e = "send" /\ trace[5].id = 1
  /\ command_credits_ = 0
  /\ Running

\* C15: head-of-queue correlation.  While the engine exists, a command in
\* flight (waiting_command_ # NONE) means the queue is not empty and the
\* opcode read from its head's serialized bytes is waiting_command_, the
\* head being the command sent last and not yet answered; a step that
\* leaves the same command in flight leaves it at the front with the rest
\* of the queue behind it, and the turn that processes its response pops
\* exactly that entry.
HeadOfQueueCorrelation ==
  /\ [](phase # "stopped" /\ waiting_command_ # NONE =>
          /\ command_queue_ # <<>>
          /\ GetOpCode(Serialize(Head(command_queue_).command))
               = waiting_command_
          /\ Sends # <<>>
          /\ Sends[Len(Sends)].id = Head(command_queue_).command.id
          /\ SinkCount(Head(command_queue_).command.id) = 0)
  /\ [][phase' # "stopped" /\ waiting_command_ # NONE
        => IF RanResponse /\ fatal' = NoFatal /\ view'.op # NONE
           THEN /\ command_queue_' = Tail(command_queue_)
                /\ Len(trace') > Len(trace)
                /\ trace'[Len(trace) + 1] = SinkRecord(Head(command_queue_))
           ELSE /\ waiting_command_' = waiting_command_
                /\ Len(command_queue_') >= Len(command_queue_)
                /\ SubSeq(command_queue_', 1, Len(command_queue_))
                     = command_queue_]_vars

\* The Reset is in flight at the head of the queue and a client's command
\* with another opcode has been enqueued behind it.
InFlightAheadOfQueued ==
  /\ Running
  /\ Len(command_queue_) = 2
  /\ InFlight(0)
  /\ command_queue_[2].command.id = 1
  /\ command_queue_[2].command.op # waiting_command_
  /\ command_credits_ = 0

\* C16: a credit-only response.  The turn of a command status or command
\* complete whose opcode is NONE is never fatal, invokes no sink, pops
\* nothing, posts no task and leaves both tables alone.  It sends, the
\* head of the queue, exactly when no command is outstanding, the queue
\* is not empty and the reported count is positive; otherwise it changes
\* the credits to the reported count and nothing else of the engine: with
\* a command in flight waiting_command_, the alarm, the queue and the
\* record of sends stay as they were.
CreditOnlyResponse ==
  [][RanResponse /\ view'.valid /\ view'.op = NONE
     => /\ fatal' = NoFatal
        /\ command_queue_' = command_queue_
        /\ tasks' = Tail(tasks)
        /\ UNCHANGED table_vars
        /\ IF /\ waiting_command_ = NONE
              /\ command_queue_ # <<>>
              /\ view'.ncp > 0
           THEN /\ trace' = Append(trace,
                              SendRecord(Head(command_queue_),
                                         Head(command_queue_).command.op))
                /\ waiting_command_' = Head(command_queue_).command.op
                /\ hci_timeout_alarm_' = <<waiting_command_'>>
                /\ command_credits_' = 0
           ELSE /\ trace' = trace
                /\ waiting_command_' = waiting_command_
                /\ hci_timeout_alarm_' = hci_timeout_alarm_
                /\ command_credits_' = view'.ncp]_vars

\* With the Reset in flight and a client's command queued behind it, a
\* credit-only response reported one credit: the Reset is still the one
\* outstanding, at the head, and nothing more was sent.
CreditOnlyWhileQueued ==
  /\ Running
  /\ view.valid /\ view.op = NONE /\ view.ncp = 1
  /\ command_credits_ = 1
  /\ InFlight(0)
  /\ Len(command_queue_) = 2
  /\ Len(Sends) = 1
  /\ Len(Sinks) = 0

\* The three visible states of the engine.
Idle == waiting_command_ = NONE /\ command_credits_ >= 1

Waiting == waiting_command_ # NONE /\ hci_timeout_alarm_ # <<>>

Blocked == waiting_command_ = NONE /\ command_credits_ = 0

\* C17 as the specification states it: between handler turns the engine
\* is Idle or Waiting, and never Blocked, whatever credit counts the
\* responses reported.
ThreeStateMachine == Running => (Idle \/ Waiting) /\ ~Blocked

\* C17, amended: between handler turns the engine is Idle, Waiting or
\* Blocked, with the alarm scheduled in Waiting only.  It starts Idle, it
\* becomes Blocked only in the turn of a response that reports the credit
\* count 0, and it leaves Blocked only in the turn of a response that
\* reports a count of 1 or more.
ThreeStatesWithBlocked ==
  /\ [](phase = "started" =>
          \/ Idle /\ hci_timeout_alarm_ = <<>>
          \/ Waiting
          \/ Blocked /\ hci_timeout_alarm_ = <<>>)
  /\ [](phase = "constructed" => Idle)
  /\ [][phase' = "started" /\ ~Blocked /\ Blocked'
        => RanResponse /\ view'.valid /\ view'.ncp = 0]_vars
  /\ [][phase' = "started" /\ Blocked /\ ~Blocked'
        => RanResponse /\ view'.valid /\ view'.ncp >= 1]_vars

\* The response to the Reset reported no credit: a client's command sits
\* in the queue, unsent, with no command outstanding and no alarm.
BlockedWithQueuedCommand ==
  /\ Running
  /\ Blocked
  /\ Len(Sinks) = 1
  /\ Len(command_queue_) = 1
  /\ Len(Sends) = 1
  /\ hci_timeout_alarm_ = <<>>

\* C18 as the specification states it, in its part 'the process never
\* aborts': under the controller of WellBehavedSpec the engine is Blocked
\* from the first answer that reports no credit on, so when it is not
\* Blocked every answer so far matched its command and reported a credit,
\* and the process must not have aborted.
NeverAbortsWhenAnswered == ~Blocked => fatal = NoFatal

\* C18, amended.  With the handler running its tasks, clients that only
\* enqueue, and a controller that sends nothing but, for every command it
\* is sent, the well-formed response of the kind and opcode the command
\* expects, before the timeout:
\*  - the process aborts only when the Reset's response reports a failure;
\*  - if that does not happen and every answer reports a credit, every
\*    enqueued command is sent and its sink invoked, unless the host stops
\*    the layer first;
\*  - once an answer has reported no credit the engine stays Blocked: no
\*    command is sent any more, the alarm is not scheduled, and the queued
\*    commands stay in the queue until the host stops the layer.
ProgressWhenAnswered ==
  /\ [](fatal # NoFatal => fatal.why = "reset_failed")
  /\ [][Blocked /\ phase = "started"
        => /\ Blocked'
           /\ trace' = trace \/ trace'[Len(trace')].e = "enq"
           /\ hci_timeout_alarm_' = <<>>
           /\ phase' = "started" =>
                SubSeq(command_queue_', 1, Len(command_queue_))
                  = command_queue_]_vars
  /\ ([]~Blocked /\ [](fatal = NoFatal)
        => \A id \in CommandIds :
             Enqueued(id) ~> \/ Sent(id) /\ SinkCount(id) = 1
                             \/ phase = "stopped")

\* The Reset and the client's command were each answered with a credit:
\* both were sent, both sinks were invoked, and the engine is idle with an
\* empty queue.
EveryCommandServed ==
  /\ Running
  /\ tasks = <<>>
  /\ Len(Enqs) = 2
  /\ \A id \in {0, 1} : Sent(id) /\ SinkCount(id) = 1
  /\ Idle
  /\ command_queue_ = <<>>

\* C19: an enqueue processed while a command is in flight, or while the
\* engine has no credit, only appends the new entry at the tail of the
\* queue: nothing is sent, no sink is invoked, nothing is posted, and the
\* credits, waiting_command_, the entries already queued and the alarm
\* (it is not scheduled again) are unchanged.
EnqueueWhileInFlight ==
  [][RanEnqueue /\ (waiting_command_ # NONE \/ command_credits_ = 0)
     => /\ Len(command_queue_') = Len(command_queue_) + 1
        /\ SubSeq(command_queue_', 1, Len(command_queue_)) = command_queue_
        /\ trace' = Append(trace,
                      EnqRecord(command_queue_'[Len(command_queue_')]))
        /\ command_queue_'[Len(command_queue_')].waiting_for_status_
             = (Head(tasks).t = "handle_enqueue_command_with_status")
        /\ tasks' = Tail(tasks)
        /\ fatal' = fatal
        /\ UNCHANGED <<command_credits_, waiting_command_,
                       hci_timeout_alarm_, table_vars>>]_vars

\* A client's command was enqueued behind the Reset in flight after a
\* credit-only response had granted a credit: it was not sent.
EnqueuedBehindWithCredit ==
  /\ Running
  /\ trace # <<>>
  /\ trace[Len(trace)].e = "enq"
  /\ trace[Len(trace)].id = 1
  /\ waiting_command_ = RESET
  /\ hci_timeout_alarm_ = <<RESET>>
  /\ command_credits_ = 1
  /\ Len(Sends) = 1
  /\ Len(command_queue_) = 2

\* The code was asked for twice: it has a handler and a registration is
\* posted, or two registrations are posted.
DoublyAcquired(code) ==
  \/ HandlerOf(code) # NoHandler /\ PendingRegistrations(code) # {}
  \/ Cardinality(PendingRegistrations(code)) >= 2

NoUnregisterPending ==
  \A k \in 1..Len(tasks) :
    tasks[k].t \notin {"handle_unregister_event_handler",
                       "handle_unregister_le_event_handler"}

\* C20: facade acquisition is not repeatable.  A getter returns without a
\* failure, having posted, in the order of its event set, one registration
\* of the caller's handler per code and changed nothing else.  Each posted
\* registration, when the handler runs it, aborts the process if the code
\* has a handler by then and registers the handler otherwise.  So a code
\* that was asked for twice stays so until the process aborts with the
\* second registration, unless an unregister runs or the layer is stopped
\* first; and with no unregister posted ahead, the abort (or the stop)
\* comes once the handler has run the posted tasks.
FacadeNotRepeatable ==
  /\ [][Len(tasks') > Len(tasks) /\ calls' = calls /\ phase' = phase
        => /\ fatal = NoFatal /\ fatal' = NoFatal
           /\ UNCHANGED <<table_vars, engine_vars>>
           /\ \E f \in Facades : \E h \in ClientHandlers :
                /\ Len(tasks') = Len(tasks) + Len(f.events)
                /\ SubSeq(tasks', 1, Len(tasks)) = tasks
                /\ \A k \in 1..Len(f.events) :
                     tasks'[Len(tasks) + k] =
                       [t |-> f.t, code |-> f.events[k], h |-> h]]_vars
  /\ [][/\ Ran("handle_register_event_handler")
           \/ Ran("handle_register_le_event_handler")
        /\ "code" \in DOMAIN Head(tasks)
        => IF HandlerOf(Head(tasks).code) # NoHandler
           THEN /\ fatal' = Fatal("second_handler")
                /\ UNCHANGED table_vars
           ELSE /\ fatal' = NoFatal
                /\ HandlerIn(Head(tasks).code, event_handlers_',
                             subevent_handlers_') = Head(tasks).h]_vars
  /\ [][\A code \in FacadeCodes :
          /\ DoublyAcquired(code)
          /\ fatal = NoFatal
          /\ phase' = "started"
          /\ ~(tasks' # tasks /\ Head(tasks).t \in UnregisterTurns)
          => DoublyAcquired(code)' \/ fatal' = Fatal("second_handler")]_vars
  /\ (\E code \in FacadeCodes : DoublyAcquired(code)) /\ NoUnregisterPending
       ~> fatal # NoFatal \/ phase = "stopped"

\* The ACL connection facade was requested twice, with no other call of a
\* client: the first registration of the second request aborted the
\* process, and its second registration is still posted.
SecondAcquisitionAborted ==
  /\ fatal = Fatal("second_handler")
  /\ calls = 0
  /\ lookup.code = "CONNECTION_COMPLETE"
  /\ lookup.found = "client"
  /\ event_handlers_["CONNECTION_REQUEST"] = "client"
  /\ tasks # <<>>
  /\ Head(tasks).code = "CONNECTION_REQUEST"

====
